---- MODULE Spec2Model ----
(***************************************************************************)
(* Model of correct-platinum-fastq-sequence-identifier (src/main.go).      *)
(*                                                                         *)
(* A line is a sequence of one-character strings; the input stream is the  *)
(* sequence of lines the bufio.Scanner yields.  The output is modelled at  *)
(* the byte level: `out` is the content of the bufio.Writer's buffer and   *)
(* `output` the bytes that were handed on to the gzip.Writer.              *)
(***************************************************************************)
EXTENDS Naturals, Integers, Sequences, FiniteSets, TLC

\* ------------------------------------------------------------------ bounds
MaxRecs == 3      \* well-formed records at the head of an input stream
MaxBatch == 2     \* largest n the pipeline passes to Fetch
MaxW == 2         \* largest worker limit (runtime.GOMAXPROCS(0))
BufSize == 12     \* capacity of the bufio.Writer, scaled down from 4096
MaxIdLen == 4     \* longest identifier line when identifiers are enumerated

\* ------------------------------------------------------------- characters
NL == "\n"
SP == " "

Min(a, b) == IF a < b THEN a ELSE b

\* bytes.HasSuffix / strings.HasSuffix
HasSuffix(s, suf) ==
    /\ Len(s) >= Len(suf)
    /\ SubSeq(s, Len(s) - Len(suf) + 1, Len(s)) = suf

\* bytes.IndexByte / strings.IndexByte: 0-based index of the first c, or -1
IndexByte(s, c) ==
    IF \E i \in 1..Len(s) : s[i] = c
    THEN (CHOOSE i \in 1..Len(s) : s[i] = c /\ \A j \in 1..(i-1) : s[j] # c) - 1
    ELSE -1

\* Go slice expression s[lo:hi] with 0-based bounds (lo <= hi <= len(s))
Slice(s, lo, hi) == SubSeq(s, lo + 1, hi)

\* an identifier rewrite that starts the slice at the space itself
CorrectIdentifierFromSpace(id) == Slice(id, IndexByte(id, SP), Len(id) - 2)

\* the identifier rewrite of both modes:
\*   line[IndexByte(line, ' ')+1 : len(line)-2]
CorrectIdentifier(id) == Slice(id, IndexByte(id, SP) + 1, Len(id) - 2)

\* whether the slice expression above is within bounds (else Go panics)
SliceOK(id) == IndexByte(id, SP) + 1 <= Len(id) - 2

\* a validation that accepts any ending of the identifier line
MateSuffixNotChecked(id) == TRUE

MateSuffixOK(id) == HasSuffix(id, <<"/", "1">>) \/ HasSuffix(id, <<"/", "2">>)

\* ------------------------------------------------------------ input lines
IdA == <<"@", "X", " ", "t", "o", "k", "e", "n", " ", "/", "1">>
IdB == <<"@", "E", "1", " ", "H", ":", "7", "/", "2">>
IdC == <<"@", "n", "/", "1">>

RecA == <<IdA, <<"A", "C">>, <<"+">>, <<"!", "#">>>>
RecB == <<IdB, <<"G">>, <<"+", "E", "1">>, <<"I">>>>
RecC == <<IdC, <<"T">>, <<"+">>, <<"5">>>>

\* well-formed four-line groups, in the order input streams cycle through
GoodRecs == <<RecA, RecB, RecC>>

\* what may follow the well-formed records: nothing, or a broken group
BadTails ==
    { <<>>,
      << <<>> >>,                                          \* an empty line
      << <<"X", " ", "t", "/", "1">> >>,                   \* no leading '@'
      << <<"@", "X", " ", "t">>, <<"A">>, <<"+">>, <<"!">> >>, \* no mate suffix
      << IdB >>,                                           \* ends after 1 line
      << IdB, <<"G">> >>,                                  \* ends after 2 lines
      << IdB, <<"G">>, <<"+">> >>,                         \* ends after 3 lines
      << IdB, <<"G">>, <<"-">>, <<"I">> >>,                \* third line no '+'
      << IdB, <<"G">>, <<>>, <<"I">> >> }                  \* third line empty

RECURSIVE Flatten(_)
Flatten(ss) == IF ss = <<>> THEN <<>> ELSE Head(ss) \o Flatten(Tail(ss))

\* n well-formed records, starting with the s-th of GoodRecs
RecordRun(s, n) ==
    [i \in 1..n |-> GoodRecs[((s + i - 2) % Len(GoodRecs)) + 1]]

GoodHeads ==
    {Flatten(RecordRun(s, n)) : s \in 1..Len(GoodRecs), n \in 0..MaxRecs}

\* the tails after which the underlying read may fail instead of ending
ReadErrorTails == {<<>>, << IdB >>, << IdB, <<"G">> >>}

\* the input streams considered: the lines of up to MaxRecs well-formed
\* records followed by one of the tails, ending in EOF or in a read error
Streams ==
    {[lines |-> h \o t, readErr |-> FALSE] : h \in GoodHeads, t \in BadTails}
    \cup {[lines |-> h \o t, readErr |-> TRUE] : h \in GoodHeads, t \in ReadErrorTails}

\* ----------------------------------------------------------------- errors
Nil == "nil"
ReadError == "read error"                \* a non-nil scanner.Err()
ErrNoAt == "malformed identifier line, missing initial @ sign"
ErrNoSuffix == "malformed identifier line, missing suffix"
ErrNoSequence == "missing sequence line"
ErrNoIntermediate == "missing intermediate line"
ErrNoPlus == "malformed intermediate line, missing initial + sign"
ErrNoQualities == "missing qualities line"

FormatErrors ==
    {ErrNoAt, ErrNoSuffix, ErrNoSequence, ErrNoIntermediate, ErrNoPlus, ErrNoQualities}

\* ----------------------------------------------------------------- source
\* type record
Record(id, sq, ql) == [identifier |-> id, sequence |-> sq, qualities |-> ql]

\* what one call of Fetch leaves behind: the return value, s.data, s.err, the
\* scanner's cursor, and whether the call ended in a run-time panic
FetchRet(fetched, data, err, pos, panicked) ==
    [fetched |-> fetched, data |-> data, err |-> err, pos |-> pos,
     panicked |-> panicked]

\* a Fetch that returns 0 and no data whenever the scanner is exhausted
ScanFailedDropsBatch(fetched, data, pos, rerr) ==
    IF rerr THEN FetchRet(0, <<>>, ReadError, pos, FALSE)
    ELSE FetchRet(0, <<>>, Nil, pos, FALSE)

\* the first Scan of an iteration returned false: s.err = s.scanner.Err()
ScanFailed(fetched, data, pos, rerr) ==
    IF rerr THEN FetchRet(0, <<>>, ReadError, pos, FALSE)
    ELSE FetchRet(fetched, data, Nil, pos, FALSE)

\* the body of Fetch's loop for one line-group starting at lines[pos+1]
DecodeGroup(lines, pos, err) ==
    LET id == lines[pos + 1]
        avail == Len(lines) - pos
    IN  IF id = <<>>
          THEN FetchRet(0, <<>>, err, pos + 1, TRUE)   \* r.identifier[0]
        ELSE IF id[1] # "@"
          THEN FetchRet(0, <<>>, ErrNoAt, pos + 1, FALSE)
        ELSE IF ~MateSuffixOK(id)
          THEN FetchRet(0, <<>>, ErrNoSuffix, pos + 1, FALSE)
        ELSE IF avail < 2
          THEN FetchRet(0, <<>>, ErrNoSequence, pos + 1, FALSE)
        ELSE IF avail < 3
          THEN FetchRet(0, <<>>, ErrNoIntermediate, pos + 2, FALSE)
        ELSE IF lines[pos + 3] = <<>>
          THEN FetchRet(0, <<>>, err, pos + 3, TRUE)   \* s.scanner.Text()[0]
        ELSE IF lines[pos + 3][1] # "+"
          THEN FetchRet(0, <<>>, ErrNoPlus, pos + 3, FALSE)
        ELSE IF avail < 4
          THEN FetchRet(0, <<>>, ErrNoQualities, pos + 3, FALSE)
        ELSE FetchRet(1, <<Record(id, lines[pos + 2], lines[pos + 4])>>,
                      err, pos + 4, FALSE)

\* a Fetch that returns the records decoded before a failing group
RECURSIVE FetchLoopPartial(_, _, _, _, _, _, _)
FetchLoopPartial(lines, rerr, pos, err, data, fetched, n) ==
    IF fetched >= n THEN FetchRet(fetched, data, err, pos, FALSE)
    ELSE IF pos >= Len(lines) THEN ScanFailed(fetched, data, pos, rerr)
    ELSE LET g == DecodeGroup(lines, pos, err)
         IN  IF g.fetched = 0 THEN [g EXCEPT !.fetched = fetched, !.data = data]
             ELSE FetchLoopPartial(lines, rerr, g.pos, err, data \o g.data,
                                   fetched + 1, n)

\* the loop of Fetch: for fetched = 0; fetched < n; fetched++ { ... }
RECURSIVE FetchLoop(_, _, _, _, _, _, _)
FetchLoop(lines, rerr, pos, err, data, fetched, n) ==
    IF fetched >= n THEN FetchRet(fetched, data, err, pos, FALSE)
    ELSE IF pos >= Len(lines) THEN ScanFailed(fetched, data, pos, rerr)
    ELSE LET g == DecodeGroup(lines, pos, err)
         IN  IF g.fetched = 0 THEN g
             ELSE FetchLoop(lines, rerr, g.pos, err, data \o g.data,
                            fetched + 1, n)

\* func (s *source) Fetch(n int) (fetched int)
Fetch(lines, rerr, pos, err, n) == FetchLoop(lines, rerr, pos, err, <<>>, 0, n)

\* ----------------------------------------------------------- bufio.Writer
\* a writer is [out: the buffer, output: the bytes handed to the gzip.Writer]
BufFlush(w) == [out |-> <<>>, output |-> w.output \o w.out]

WriteByte(w, c) ==
    LET v == IF Len(w.out) >= BufSize THEN BufFlush(w) ELSE w
    IN  [v EXCEPT !.out = Append(@, c)]

RECURSIVE WriteString(_, _)
WriteString(w, s) ==
    LET n == BufSize - Len(w.out)
    IN  IF Len(s) > n
        THEN WriteString(BufFlush([w EXCEPT !.out = @ \o SubSeq(s, 1, n)]),
                         SubSeq(s, n + 1, Len(s)))
        ELSE [w EXCEPT !.out = @ \o s]

RECURSIVE Write(_, _)
Write(w, p) ==
    LET n == BufSize - Len(w.out)
    IN  IF Len(p) > n
        THEN IF w.out = <<>>
             THEN [w EXCEPT !.output = @ \o p]     \* large write, empty buffer
             ELSE Write(BufFlush([w EXCEPT !.out = @ \o SubSeq(p, 1, n)]),
                        SubSeq(p, n + 1, Len(p)))
        ELSE [w EXCEPT !.out = @ \o p]

\* -------------------------------------------------------- parallel stages
\* the LimitedPar receiver: rewrite the identifier of every record
TransformRecord(r) == [r EXCEPT !.identifier = CorrectIdentifier(r.identifier)]

TransformBatch(records) == [i \in 1..Len(records) |-> TransformRecord(records[i])]

\* an encoder that leaves out the newline after the separator
WriteRecordNoNewline(w, r) ==
    LET w1 == WriteByte(w, "@")
        w2 == WriteString(w1, r.identifier)
        w3 == WriteByte(w2, NL)
        w4 == WriteString(w3, r.sequence)
        w5 == WriteString(w4, <<NL, "+">>)
        w6 == WriteString(w5, r.qualities)
    IN  WriteByte(w6, NL)

\* the StrictOrd receiver's loop body: encode one record
WriteRecord(w, r) ==
    LET w1 == WriteByte(w, "@")
        w2 == WriteString(w1, r.identifier)
        w3 == WriteByte(w2, NL)
        w4 == WriteString(w3, r.sequence)
        w5 == WriteString(w4, <<NL, "+", NL>>)
        w6 == WriteString(w5, r.qualities)
    IN  WriteByte(w6, NL)

RECURSIVE WriteRecords(_, _)
WriteRecords(w, records) ==
    IF records = <<>> THEN w
    ELSE WriteRecords(WriteRecord(w, Head(records)), Tail(records))

\* ------------------------------------------------------- sequential mode
\* one pass of the loop body of the sequential function, entered after
\* in.Scan() returned true for lines[pos+1]; a failed assert or an index out
\* of range panics after the writes made so far
SeqRet(w, pos, panicked) == [w |-> w, pos |-> pos, panicked |-> panicked]

SeqIteration(lines, pos, w) ==
    LET line == lines[pos + 1]
        avail == Len(lines) - pos
    IN  IF line = <<>> \/ line[1] # "@" \/ ~MateSuffixOK(line)
          THEN SeqRet(w, pos + 1, TRUE)
        ELSE LET wa == WriteByte(Write(WriteByte(w, "@"),
                                       CorrectIdentifier(line)), NL)
             IN  IF avail < 2 THEN SeqRet(wa, pos + 1, TRUE)
                 ELSE LET wb == WriteByte(Write(wa, lines[pos + 2]), NL)
                      IN  IF avail < 3 THEN SeqRet(wb, pos + 2, TRUE)
                          ELSE IF lines[pos + 3] = <<>> \/ lines[pos + 3][1] # "+"
                            THEN SeqRet(wb, pos + 3, TRUE)
                          ELSE LET wc == Write(wb, <<"+", NL>>)
                               IN  IF avail < 4 THEN SeqRet(wc, pos + 3, TRUE)
                                   ELSE SeqRet(WriteByte(Write(wc, lines[pos + 4]), NL),
                                               pos + 4, FALSE)

\* ------------------------------------------------------------------ state
VARIABLES
    args,       \* os.Args[1:], the command-line arguments
    usage,      \* whether the usage message has been printed
    input,      \* the lines of the decompressed input file
    readErr,    \* whether the stream ends in a read error instead of EOF
    W,          \* runtime.GOMAXPROCS(0), the LimitedPar limit
    pc,         \* position of the main goroutine
    pos,        \* number of lines the scanner has returned
    sdata,      \* source.data
    serr,       \* source.err
    batchSize,  \* the n of the last Fetch call
    fetched,    \* the return value of the last Fetch call
    opened,     \* resources acquired so far
    closes,     \* number of Close calls made on each resource
    defers,     \* the deferred calls of the running function, last first
    panicked,   \* whether the goroutine is panicking
    out,        \* buffered bytes of the bufio.Writer `out`
    output,     \* bytes the gzip.Writer `output` has received
    seqNo,      \* sequence number of the next batch
    pending,    \* the fetched batch waiting for a worker slot, if any
    inflight,   \* batches being transformed by LimitedPar workers
    handoff,    \* transformed batches on their way to the StrictOrd stage
    stash,      \* batches the StrictOrd stage holds back
    expected,   \* sequence number the StrictOrd stage delivers next
    perr,       \* the pipeline's latched error
    fetchDone,  \* the driver has stopped fetching
    delivered   \* sequence numbers handed to the StrictOrd receiver, in order

\* os.Args[1], where there is one
mode == IF Len(args) >= 1 THEN args[1] ELSE ""

params == <<args, input, readErr, W>>
srcVars == <<pos, sdata, serr, batchSize, fetched>>
resVars == <<opened, closes, defers>>
outVars == <<out, output>>
pipeVars == <<seqNo, pending, inflight, handoff, stash, expected, perr,
              fetchDone, delivered>>
vars == <<params, usage, pc, srcVars, resVars, panicked, outVars, pipeVars>>

\* the command lines considered: no argument, an unknown mode, a mode
\* without its paths, and the two modes with input and output path
ArgLists ==
    { <<>>, <<"bogus">>, <<"seq">>,
      <<"seq", "in.fastq.gz", "out.fastq.gz">>,
      <<"par", "in.fastq.gz", "out.fastq.gz">> }

Resources == {"ingz", "input", "outgz", "output"}

Init ==
    /\ args \in ArgLists
    /\ usage = FALSE
    /\ \E s \in Streams : input = s.lines /\ readErr = s.readErr
    /\ W \in (IF mode = "par" THEN 1..MaxW ELSE {1})
    /\ pc = "main"
    /\ pos = 0 /\ sdata = <<>> /\ serr = Nil /\ batchSize = 0 /\ fetched = 0
    /\ opened = {} /\ closes = [r \in Resources |-> 0] /\ defers = <<>>
    /\ panicked = FALSE
    /\ out = <<>> /\ output = <<>>
    /\ seqNo = 0 /\ pending = <<>> /\ inflight = {} /\ handoff = <<>>
    /\ stash = {} /\ expected = 0 /\ perr = Nil /\ fetchDone = FALSE
    /\ delivered = <<>>

\* check(err) with a non-nil err, or a failed assert: the function unwinds
Panic == pc' = "defers" /\ panicked' = TRUE

\* func main: switch os.Args[1].  Indexing os.Args beyond its length is a
\* run-time panic; main has no deferred calls
Main ==
    /\ pc = "main"
    /\ IF Len(args) < 1
       THEN pc' = "exit" /\ panicked' = TRUE /\ UNCHANGED usage
       ELSE IF args[1] \in {"seq", "par"}
       THEN IF Len(args) < 3
            THEN pc' = "exit" /\ panicked' = TRUE /\ UNCHANGED usage
            ELSE pc' = "open" /\ UNCHANGED <<panicked, usage>>
       ELSE pc' = "exit" /\ usage' = TRUE /\ UNCHANGED panicked
    /\ UNCHANGED <<params, srcVars, resVars, outVars, pipeVars>>

\* ---------------------------------------------------- acquiring resources
\* os.Open(infastq): first statement of the sequential function and of newSource
OpenInput ==
    /\ pc = "open"
    /\ \E ok \in BOOLEAN :
         IF ok
         THEN /\ opened' = opened \cup {"ingz"}
              /\ defers' = IF mode = "seq" THEN <<"ingz">> ELSE defers
              /\ pc' = IF mode = "seq" THEN "create" ELSE "newreader"
              /\ UNCHANGED <<closes, panicked>>
         ELSE Panic /\ UNCHANGED resVars
    /\ UNCHANGED <<params, usage, srcVars, outVars, pipeVars>>

\* a newSource that returns the error without closing gz
NewSourceFailedLeaks == closes

\* newSource when gzip.NewReader fails: close gz, return the error
NewSourceFailed == [closes EXCEPT !["ingz"] = @ + 1]

\* gzip.NewReader, in newSource (parallel) or in the sequential function,
\* which goes on to gzip.NewWriter
NewReader ==
    /\ pc = "newreader"
    /\ \E ok \in BOOLEAN :
         IF ok
         THEN IF mode = "par"
              THEN /\ opened' = opened \cup {"input"}
                   /\ defers' = <<"src">> \o defers
                   /\ pc' = "create"
                   /\ UNCHANGED <<closes, panicked>>
              ELSE /\ opened' = opened \cup {"input", "output"}
                   /\ defers' = <<"output", "input">> \o defers
                   /\ pc' = "loop"
                   /\ UNCHANGED <<closes, panicked>>
         ELSE /\ Panic
              /\ closes' = IF mode = "par" THEN NewSourceFailed ELSE closes
              /\ UNCHANGED <<opened, defers>>
    /\ UNCHANGED <<params, usage, srcVars, outVars, pipeVars>>

\* os.Create(outfastq); the parallel function goes on to gzip.NewWriter
CreateOutput ==
    /\ pc = "create"
    /\ \E ok \in BOOLEAN :
         IF ok
         THEN IF mode = "par"
              THEN /\ opened' = opened \cup {"outgz", "output"}
                   /\ defers' = <<"output", "outgz">> \o defers
                   /\ pc' = "run"
                   /\ UNCHANGED <<closes, panicked>>
              ELSE /\ opened' = opened \cup {"outgz"}
                   /\ defers' = <<"outgz">> \o defers
                   /\ pc' = "newreader"
                   /\ UNCHANGED <<closes, panicked>>
         ELSE Panic /\ UNCHANGED resVars
    /\ UNCHANGED <<params, usage, srcVars, outVars, pipeVars>>

\* ------------------------------------------------------- sequential loop
\* for in.Scan() { ... }: one iteration, or the end of the loop
SeqLoop ==
    /\ pc = "loop"
    /\ IF pos >= Len(input)
       THEN /\ pc' = "defers"
            /\ UNCHANGED <<pos, out, output, panicked>>
       ELSE LET r == SeqIteration(input, pos, [out |-> out, output |-> output])
            IN  /\ pos' = r.pos
                /\ out' = r.w.out
                /\ output' = r.w.output
                /\ panicked' = r.panicked
                /\ pc' = IF r.panicked THEN "defers" ELSE "loop"
    /\ UNCHANGED <<params, usage, sdata, serr, batchSize, fetched, resVars, pipeVars>>

\* ------------------------------------------------------ parallel pipeline
\* The pipeline engine (Source -> LimitedPar -> StrictOrd, run by p.Run) is
\* the imported package github.com/exascience/pargo/pipeline.  Its stages are
\* modelled as the specification describes them; the functions they call
\* (Fetch, the two receivers) are the ones of main.go.
Batch(n, data) == [seq |-> n, data |-> data]

\* Strict-Order Sink: hand a batch to the receiver and advance
Deliver(b, st) ==
    [w |-> WriteRecords(st.w, b.data),
     stash |-> st.stash \ {b},
     expected |-> st.expected + 1,
     delivered |-> Append(st.delivered, b.seq)]

RECURSIVE Drain(_)
Drain(st) ==
    IF \E b \in st.stash : b.seq = st.expected
    THEN Drain(Deliver(CHOOSE b \in st.stash : b.seq = st.expected, st))
    ELSE st

\* a sink that hands every arrival straight to the receiver
SinkArriveUnordered(b, st) == Deliver(b, st)

\* Strict-Order Sink, on each arrival: deliver and drain, or buffer
SinkArrive(b, st) ==
    IF b.seq = st.expected THEN Drain(Deliver(b, st))
    ELSE [st EXCEPT !.stash = @ \cup {b}]

\* a stage that takes a batch whenever one is pending
SlotFreeUnbounded == TRUE

\* Bounded Parallel Stage: a worker slot is free
SlotFree == Cardinality(inflight) < W

\* Driver: call Source.fetch; stop on a zero-length batch, latching the
\* source's error if there is one.  A run-time panic inside Fetch unwinds the
\* calling function at once; batches still in the stages are abandoned.
PFetch ==
    /\ pc = "run" /\ ~fetchDone /\ pending = <<>> /\ perr = Nil
    /\ \E n \in 1..MaxBatch :
         LET r == Fetch(input, readErr, pos, serr, n)
         IN  /\ batchSize' = n
             /\ fetched' = r.fetched
             /\ pos' = r.pos
             /\ sdata' = r.data
             /\ serr' = r.err
             /\ IF r.panicked
                THEN Panic /\ UNCHANGED <<seqNo, pending, perr, fetchDone>>
                ELSE /\ UNCHANGED <<pc, panicked>>
                     /\ IF r.fetched = 0
                        THEN /\ fetchDone' = TRUE
                             /\ perr' = r.err
                             /\ UNCHANGED <<seqNo, pending>>
                        ELSE /\ pending' = <<Batch(seqNo, r.data)>>
                             /\ seqNo' = seqNo + 1
                             /\ UNCHANGED <<perr, fetchDone>>
    /\ UNCHANGED <<params, usage, resVars, outVars, inflight, handoff, stash,
                   expected, delivered>>

\* Driver: dispatch the pending batch to a worker, blocking while W are busy
PDispatch ==
    /\ pc = "run" /\ pending # <<>> /\ SlotFree
    /\ inflight' = inflight \cup {pending[1]}
    /\ pending' = <<>>
    /\ UNCHANGED <<params, usage, pc, srcVars, resVars, panicked, outVars, seqNo,
                   handoff, stash, expected, perr, fetchDone, delivered>>

\* a worker finishes its batch: the LimitedPar receiver has rewritten every
\* record; the result is handed on, or discarded once an error is latched
PWorker ==
    /\ pc = "run"
    /\ \E b \in inflight :
         /\ inflight' = inflight \ {b}
         /\ IF \E i \in 1..Len(b.data) : ~SliceOK(b.data[i].identifier)
            THEN /\ pc' = "exit" /\ panicked' = TRUE   \* panic in a goroutine
                 /\ UNCHANGED handoff
            ELSE /\ UNCHANGED <<pc, panicked>>
                 /\ handoff' = IF perr = Nil
                               THEN Append(handoff, Batch(b.seq, TransformBatch(b.data)))
                               ELSE handoff
    /\ UNCHANGED <<params, usage, srcVars, resVars, outVars, seqNo, pending, stash,
                   expected, perr, fetchDone, delivered>>

\* a StrictOrd stage that keeps delivering after an error was latched
PSinkAfterError ==
    /\ pc = "run" /\ handoff # <<>>
    /\ handoff' = Tail(handoff)
    /\ LET st == SinkArrive(Head(handoff),
                            [w |-> [out |-> out, output |-> output],
                             stash |-> stash, expected |-> expected,
                             delivered |-> delivered])
       IN  /\ out' = st.w.out
           /\ output' = st.w.output
           /\ stash' = st.stash
           /\ expected' = st.expected
           /\ delivered' = st.delivered
    /\ UNCHANGED <<params, usage, pc, srcVars, resVars, panicked, seqNo, pending,
                   inflight, perr, fetchDone>>

\* the StrictOrd stage takes the next arrival from the hand-off queue
PSink ==
    /\ pc = "run" /\ handoff # <<>>
    /\ handoff' = Tail(handoff)
    /\ IF perr # Nil
       THEN UNCHANGED <<out, output, stash, expected, delivered>>
       ELSE LET st == SinkArrive(Head(handoff),
                                 [w |-> [out |-> out, output |-> output],
                                  stash |-> stash, expected |-> expected,
                                  delivered |-> delivered])
            IN  /\ out' = st.w.out
                /\ output' = st.w.output
                /\ stash' = st.stash
                /\ expected' = st.expected
                /\ delivered' = st.delivered
    /\ UNCHANGED <<params, usage, pc, srcVars, resVars, panicked, seqNo, pending,
                   inflight, perr, fetchDone>>

\* p.Run() returns once all stages have settled; then check(p.Err())
PRunReturn ==
    /\ pc = "run" /\ fetchDone
    /\ pending = <<>> /\ inflight = {} /\ handoff = <<>>
    /\ pc' = "defers"
    /\ panicked' = (perr # Nil)
    /\ UNCHANGED <<params, usage, srcVars, resVars, outVars, pipeVars>>

\* ----------------------------------------------------- releasing resources
\* the resources a deferred call closes: src.Close() closes reader and gz
ClosedBy(d) == IF d = "src" THEN {"input", "ingz"} ELSE {d}

\* the next deferred call runs; a failed Close makes check panic, and the
\* remaining deferred calls still run
RunDeferred ==
    /\ pc = "defers" /\ defers # <<>>
    /\ closes' = [r \in Resources |->
                    IF r \in ClosedBy(Head(defers)) THEN closes[r] + 1 ELSE closes[r]]
    /\ defers' = Tail(defers)
    /\ \E failed \in BOOLEAN : panicked' = (panicked \/ failed)
    /\ UNCHANGED <<params, usage, pc, srcVars, opened, outVars, pipeVars>>

\* the function has returned or the panic has reached the top: the process ends
Exit ==
    /\ pc = "defers" /\ defers = <<>>
    /\ pc' = "exit"
    /\ UNCHANGED <<params, usage, srcVars, resVars, panicked, outVars, pipeVars>>

Next ==
    \/ Main
    \/ OpenInput
    \/ NewReader
    \/ CreateOutput
    \/ SeqLoop
    \/ PFetch
    \/ PDispatch
    \/ PWorker
    \/ PSink
    \/ PRunReturn
    \/ RunDeferred
    \/ Exit

Spec == Init /\ [][Next]_vars

\* ------------------------------------------------- vocabulary of the claims
\* every byte written to the bufio.Writer so far, in order
Written == output \o out

\* the complete lines of a byte sequence
RECURSIVE SplitLines(_)
SplitLines(b) ==
    IF \A i \in 1..Len(b) : b[i] # NL THEN <<>>
    ELSE LET k == CHOOSE i \in 1..Len(b) :
                      b[i] = NL /\ \A j \in 1..(i - 1) : b[j] # NL
         IN  <<SubSeq(b, 1, k - 1)>> \o SplitLines(SubSeq(b, k + 1, Len(b)))

OutLines == SplitLines(Written)

\* a four-line group obeying the structural rules starts after line p
WellFormedGroup(lines, p) ==
    /\ p + 4 <= Len(lines)
    /\ lines[p + 1] # <<>> /\ lines[p + 1][1] = "@" /\ MateSuffixOK(lines[p + 1])
    /\ lines[p + 3] # <<>> /\ lines[p + 3][1] = "+"

RECURSIVE GoodGroups(_, _)
GoodGroups(lines, k) ==
    IF WellFormedGroup(lines, 4 * k) THEN GoodGroups(lines, k + 1) ELSE k

\* the records at the head of the input, up to the first broken group
NumRecords == GoodGroups(input, 0)
InputRecords ==
    [i \in 1..NumRecords |->
        Record(input[4 * i - 3], input[4 * i - 2], input[4 * i])]

\* the whole stream is well-formed records and ends in a clean EOF
WellFormedInput == Len(input) = 4 * NumRecords /\ ~readErr

\* the four output lines of a record
Encode(r) ==
    <<"@">> \o r.identifier \o <<NL>> \o r.sequence \o <<NL, "+", NL>>
            \o r.qualities \o <<NL>>

\* the encoding of the first k input records, identifiers rewritten
ExpectedBytes(k) ==
    Flatten([i \in 1..k |-> Encode(TransformRecord(InputRecords[i]))])

\* the parallel run went through p.Run() and check(p.Err()) without an error
ParCompleted ==
    mode = "par" /\ pc \in {"defers", "exit"} /\ fetchDone /\ perr = Nil

\* ---------------------------------------------------------------- claims
\* C1: order preservation.  Whatever the worker limit and the order in which
\* workers complete, the batches handed to the StrictOrd receiver carry the
\* sequence numbers 0,1,2,... in ascending order without gap or repeat; a
\* completed run has delivered all B batches; and the bytes written are the
\* encodings of the input records in input order.
C1_OrderPreservation ==
    /\ \A i \in 1..Len(delivered) : delivered[i] = i - 1
    /\ expected = Len(delivered)
    /\ ParCompleted => Len(delivered) = seqNo
    /\ mode = "par" => \E k \in 0..NumRecords : Written = ExpectedBytes(k)

\* C1 witness: after a first delivery a batch that completed ahead of its
\* turn is held back by the StrictOrd stage
C1_Witness ==
    /\ W > 1 /\ delivered # <<>>
    /\ \E b \in stash : b.seq > expected

\* C2 (as claimed): when a run completes cleanly the buffered writer has been
\* flushed, so all bytes written are in the compressed output
C2_FlushedOnCompletion ==
    (pc = "exit" /\ ~panicked /\ "output" \in opened)
        => (out = <<>> /\ output = ExpectedBytes(NumRecords))

\* the identifier line of the i-th record read by the run
InputId(i) == input[4 * i - 3]

HasSpace(s) == \E i \in 1..Len(s) : s[i] = SP

\* what follows the first space of s
RECURSIVE AfterFirstSpace(_)
AfterFirstSpace(s) ==
    IF s = <<>> THEN <<>>
    ELSE IF Head(s) = SP THEN Tail(s)
    ELSE AfterFirstSpace(Tail(s))

\* the characters of s before its first space (all of s if it has none)
RECURSIVE FirstToken(_)
FirstToken(s) ==
    IF s = <<>> \/ Head(s) = SP THEN <<>>
    ELSE <<Head(s)>> \o FirstToken(Tail(s))

DropLast2(s) == SubSeq(s, 1, Len(s) - 2)

\* the middle token of an identifier line: the space-free text between the
\* first space and the mate suffix
MiddleToken(id) == FirstToken(DropLast2(AfterFirstSpace(id)))

\* the identifier lines written so far, one per record
NumIdsWritten == (Len(OutLines) + 3) \div 4

\* C3 (as claimed): every identifier line written is '@' followed by only the
\* middle token of the input identifier: "@X token /1" gives "@token"
C3_OnlyMiddleToken ==
    \A i \in 1..NumIdsWritten :
        HasSpace(InputId(i)) =>
            OutLines[4 * i - 3] = <<"@">> \o MiddleToken(InputId(i))

\* C3 (amended): every identifier line written for an input identifier that
\* contains a space is '@' followed by everything between the first space
\* and the final two characters, further spaces included ("@X token /1"
\* gives "@token " with its trailing space); it is '@' and the middle token
\* alone when the suffix follows the token directly ("@E1 H:7/2" gives "@H:7")
C3_IdentifierTransform ==
    \A i \in 1..NumIdsWritten :
        HasSpace(InputId(i)) =>
            /\ OutLines[4 * i - 3] = <<"@">> \o DropLast2(AfterFirstSpace(InputId(i)))
            /\ ~HasSpace(DropLast2(AfterFirstSpace(InputId(i))))
                 => OutLines[4 * i - 3] = <<"@">> \o MiddleToken(InputId(i))
            /\ InputId(i) = IdA
                 => OutLines[4 * i - 3] = <<"@", "t", "o", "k", "e", "n", " ">>
            /\ InputId(i) = IdB => OutLines[4 * i - 3] = <<"@", "H", ":", "7">>

\* C3 witness: both kinds of identifier have been rewritten and written, in
\* parallel mode
C3_Witness ==
    /\ mode = "par" /\ NumIdsWritten >= 2
    /\ InputId(1) = IdA /\ InputId(2) = IdB

\* C4: worker-count independence.  A parallel run that completes without an
\* error leaves the buffered writer and the compressed output in the state a
\* plain in-order loop over the input records leaves them in; that state is a
\* function of the input alone, so it is the same for every worker limit,
\* every batch size and every scheduling.
C4_WorkerCountIndependence ==
    ParCompleted =>
        LET ref == WriteRecords([out |-> <<>>, output |-> <<>>],
                                TransformBatch(InputRecords))
        IN  out = ref.out /\ output = ref.output

\* C4 witness: a run with more than one worker and several batches completed
C4_Witness == ParCompleted /\ W > 1 /\ Len(delivered) >= 2 /\ pc = "exit"

\* the structural rule the line-group starting after line p breaks
BrokenRule(lines, p) ==
    LET have(j) == p + j <= Len(lines)
        startsWith(j, c) == lines[p + j] # <<>> /\ lines[p + j][1] = c
    IN  IF ~startsWith(1, "@") THEN ErrNoAt
        ELSE IF ~MateSuffixOK(lines[p + 1]) THEN ErrNoSuffix
        ELSE IF ~have(2) THEN ErrNoSequence
        ELSE IF ~have(3) THEN ErrNoIntermediate
        ELSE IF ~startsWith(3, "+") THEN ErrNoPlus
        ELSE ErrNoQualities

\* the driver is about to call Fetch
AtFetch == pc = "run" /\ ~fetchDone /\ pending = <<>> /\ perr = Nil

\* C5 (as claimed): whatever the lines are, Fetch does not terminate
\* abnormally, and when one of the next n line-groups breaks a structural rule
\* Fetch(n) returns 0 with Err() set to the error of that rule
C5_MalformedRejected ==
    AtFetch =>
        \A n \in 1..MaxBatch :
            LET r == Fetch(input, readErr, pos, serr, n)
                good == GoodGroups(input, pos \div 4) - pos \div 4
                broken == good < n /\ pos + 4 * good < Len(input)
            IN  /\ ~r.panicked
                /\ broken => /\ r.fetched = 0
                             /\ r.err = BrokenRule(input, pos + 4 * good)

\* C6: batching on a well-formed stream.  Every Fetch(n) returns
\* min(n, records remaining), leaves exactly the next that many records in
\* Data() and no error, and starts where the previous call stopped; it
\* returns fewer than n only at the end of the stream, and 0 when nothing
\* remains (so an empty input gives no records and no error); a completed
\* run has fetched every record.
C6_Batching ==
    /\ [][(PFetch /\ WellFormedInput) =>
            LET before == pos \div 4
                remaining == NumRecords - before
            IN  /\ fetched' = Min(batchSize', remaining)
                /\ Len(sdata') = fetched'
                /\ sdata' = SubSeq(InputRecords, before + 1, before + fetched')
                /\ pos' = pos + 4 * fetched'
                /\ serr' = Nil /\ ~panicked'
                /\ fetched' < batchSize' => pos' = Len(input)
                /\ fetchDone' <=> remaining = 0]_vars
    /\ [](ParCompleted /\ WellFormedInput => pos = Len(input))

\* C6 witness: the stream ended inside a batch; the short batch was returned
C6_Witness ==
    /\ mode = "par" /\ WellFormedInput
    /\ fetched >= 1 /\ fetched < batchSize /\ pos = Len(input)
    /\ Len(sdata) = fetched

\* C7: backpressure.  At most W batches are being transformed at any time.
C7_Backpressure == Cardinality(inflight) <= W

\* C7 witness: all W slots are busy and the next batch waits for one
C7_Witness == W > 1 /\ Cardinality(inflight) = W /\ pending # <<>>

\* C8 (as claimed): when a run ends in a pipeline error, the compressed output holds
\* the encoding of whole records only, all those that were delivered to the
\* writer and nothing else
C8_WholeRecordsOnError ==
    (pc = "exit" /\ perr # Nil) =>
        /\ \E k \in 0..NumRecords : output = ExpectedBytes(k)
        /\ output = ExpectedBytes(Len(OutLines) \div 4)

C10_Frame ==
    \A j \in 1..Len(OutLines) :
        /\ j % 4 = 2 => OutLines[j] = input[j]
        /\ j % 4 = 3 => OutLines[j] = <<"+">>
        /\ j % 4 = 0 => OutLines[j] = input[j]

\* C10 witness: a record whose separator line carried text has been written
\* in parallel mode
C10_Witness ==
    /\ mode = "par" /\ Len(OutLines) >= 4
    /\ input[3] = <<"+", "E", "1">> /\ OutLines[3] = <<"+">>

\* C11 (as claimed): with a missing or unknown mode argument the executable
\* prints the usage message, processes nothing and ends normally
C11_UsageOnBadMode ==
    (pc = "exit" /\ mode \notin {"seq", "par"}) =>
        usage /\ ~panicked /\ opened = {} /\ Written = <<>>

\* ------------------------------------------------ the source on its own
\* The source driven through its interface alone: a caller that keeps calling
\* Fetch, with any n, whatever the previous call returned.
InitSource ==
    /\ args = <<"par", "in.fastq.gz", "out.fastq.gz">>
    /\ usage = FALSE
    /\ \E s \in Streams : input = s.lines /\ readErr = s.readErr
    /\ W = 1
    /\ pc = "source"
    /\ pos = 0 /\ sdata = <<>> /\ serr = Nil /\ batchSize = 0 /\ fetched = 0
    /\ opened = {"ingz", "input"} /\ closes = [r \in Resources |-> 0]
    /\ defers = <<>>
    /\ panicked = FALSE
    /\ out = <<>> /\ output = <<>>
    /\ seqNo = 0 /\ pending = <<>> /\ inflight = {} /\ handoff = <<>>
    /\ stash = {} /\ expected = 0 /\ perr = Nil /\ fetchDone = FALSE
    /\ delivered = <<>>

\* one call s.Fetch(n); Err() is serr and Data() is sdata afterwards
FetchCall ==
    /\ pc = "source"
    /\ \E n \in 1..MaxBatch :
         LET r == Fetch(input, readErr, pos, serr, n)
         IN  /\ batchSize' = n
             /\ fetched' = r.fetched
             /\ pos' = r.pos
             /\ sdata' = r.data
             /\ serr' = r.err
             /\ panicked' = r.panicked
             /\ pc' = IF r.panicked THEN "exit" ELSE "source"
    /\ UNCHANGED <<params, usage, resVars, outVars, pipeVars>>

NextSource == FetchCall

SpecSource == InitSource /\ [][NextSource]_vars

\* C12 (as claimed): once Err() of the source is non-nil, it is the same
\* non-nil error after every further call of Fetch
C12_ErrSticky == [][serr # Nil => serr' = serr]_vars

\* C13: no partial batch on error.  When one of the next n line-groups cannot
\* be decoded, or the stream fails to read, after k >= 0 records of the call
\* were decoded, Fetch(n) returns 0 and leaves Data() empty, and the driver
\* makes no batch of the k records; after every call the count returned is
\* the number of records in Data().
C13_NoPartialBatch ==
    [][PFetch =>
         LET before == pos \div 4
             k == GoodGroups(input, before) - before
             failing == k < batchSize' /\ (pos + 4 * k < Len(input) \/ readErr)
         IN  /\ Len(sdata') = fetched'
             /\ failing => /\ fetched' = 0 /\ sdata' = <<>>
                           /\ panicked' \/ serr' # Nil
                           /\ pending' = <<>> /\ seqNo' = seqNo]_vars

\* C13 witness: the only call of the run, Fetch(2), decoded one record, met
\* a broken group and returned nothing
C13_Witness ==
    /\ mode = "par" /\ seqNo = 0 /\ fetchDone /\ batchSize = 2
    /\ NumRecords >= 1 /\ pos > 4
    /\ fetched = 0 /\ sdata = <<>> /\ serr \in FormatErrors

\* C14: first-error cancellation.  Once an error is latched for the run it
\* stays latched; the driver calls Fetch no more (the scanner's cursor and the
\* source's state stay put) and creates and dispatches no batch; workers only
\* finish what they hold; nothing is delivered to the writer stage and no
\* byte is written.
C14_FirstErrorCancellation ==
    [][perr # Nil =>
         /\ perr' = perr
         /\ <<pos, sdata, serr, batchSize, fetched>>' =
                <<pos, sdata, serr, batchSize, fetched>>
         /\ seqNo' = seqNo /\ pending' = pending
         /\ inflight' \subseteq inflight
         /\ Len(handoff') <= Len(handoff)
         /\ delivered' = delivered /\ expected' = expected /\ stash' = stash
         /\ out' = out /\ output' = output]_vars

\* C14 witness: the run ended on a latched error with a batch that had been
\* created but was never delivered
C14_Witness ==
    /\ pc = "exit" /\ perr # Nil /\ seqNo > Len(delivered)
    /\ inflight = {} /\ handoff = <<>>

\* a Scan of the run returned false because reading the stream failed
ReadFailureMet == readErr /\ pos = Len(input) /\ "output" \in opened

\* C15 (as claimed): in either mode, a run that met a read failure of the
\* input stream, at a record boundary or inside a record, ends abnormally
C15_ReadFailureFatal ==
    (pc = "exit" /\ ReadFailureMet) => panicked

\* C16 (as claimed): an identifier without a space is never transformed and
\* written: every identifier line in the output comes from an input
\* identifier that contains a space, and a parallel run that fetched an
\* accepted identifier without a space ends abnormally
C16_NoSpaceIsFatal ==
    mode = "par" =>
        /\ \A i \in 1..NumIdsWritten : HasSpace(InputId(i))
        /\ \A i \in 1..NumRecords :
               (pc = "exit" /\ pos >= 4 * i /\ ~HasSpace(InputId(i))) => panicked

\* s ends in /1 or /2
EndsInMate(s) ==
    /\ Len(s) >= 2
    /\ s[Len(s) - 1] = "/"
    /\ s[Len(s)] \in {"1", "2"}

\* the first k groups of the input are well-formed and the next one starts
\* with an identifier line that has its '@' and no mate suffix
FirstSuffixless(k) ==
    /\ \A j \in 0..(k - 1) : WellFormedGroup(input, 4 * j)
    /\ 4 * k < Len(input)
    /\ input[4 * k + 1] # <<>> /\ input[4 * k + 1][1] = "@"
    /\ ~EndsInMate(input[4 * k + 1])

\* the run has read the identifier line of group k
ReadIdOf(k) == pos > 4 * k /\ (mode = "par" \/ "output" \in opened)

\* C17 (as claimed): an identifier line without /1 or /2 is rejected in
\* parallel mode, while sequential mode does not test the suffix: it strips
\* the last two characters and writes the record's identifier line
C17_ModesDifferOnSuffix ==
    \A k \in 0..MaxRecs :
        (FirstSuffixless(k) /\ ReadIdOf(k)) =>
            /\ mode = "par" => (serr = ErrNoSuffix /\ Len(OutLines) <= 4 * k)
            /\ mode = "seq" => (NumIdsWritten = k + 1 /\ Len(OutLines) >= 4 * k + 1)

\* C17 (amended): both modes test the suffix.  An identifier line without /1
\* or /2 is rejected in parallel mode by Fetch returning 0 with the
\* missing-suffix error, and in sequential mode by a failed assertion before
\* anything of the record is written; either way the run reads no further,
\* writes nothing of that record and ends abnormally.
C17_BothModesCheckSuffix ==
    \A k \in 0..MaxRecs :
        (FirstSuffixless(k) /\ ReadIdOf(k)) =>
            /\ pos = 4 * k + 1
            /\ Len(OutLines) <= 4 * k /\ NumIdsWritten <= k
            /\ pc = "exit" => panicked
            /\ mode = "par" => (serr = ErrNoSuffix /\ perr = ErrNoSuffix
                                /\ fetched = 0 /\ sdata = <<>>)
            /\ mode = "seq" => (panicked /\ Len(OutLines) = 4 * k)

\* C17 witness: a sequential run wrote a record, then stopped at an
\* identifier line without a mate suffix
C17_Witness ==
    /\ mode = "seq" /\ pc = "exit" /\ panicked
    /\ \E k \in 1..MaxRecs :
          FirstSuffixless(k) /\ pos = 4 * k + 1 /\ Len(OutLines) = 4 * k

\* the sequential loop ran to the end of the input
SeqCompleted ==
    mode = "seq" /\ pc \in {"defers", "exit"} /\ "output" \in opened
                 /\ pos = Len(input)

\* C18: the two modes agree on well-formed input.  In either mode the bytes
\* written to the buffered writer are at every moment the encoding of the
\* first k input records, in input order, and when the loop or the pipeline
\* has completed they are the encoding of all of them: a sequence of bytes
\* fixed by the input alone, hence the same in sequential mode and in
\* parallel mode under every worker limit, batch size and scheduling.
C18_ModesWriteSameBytes ==
    WellFormedInput =>
        /\ \E k \in 0..NumRecords : Written = ExpectedBytes(k)
        /\ (SeqCompleted \/ ParCompleted) => Written = ExpectedBytes(NumRecords)
        /\ (mode = "seq" /\ pc \in {"defers", "exit"} /\ "output" \in opened)
               => SeqCompleted
        /\ (mode = "par" /\ pc \in {"defers", "exit"} /\ "output" \in opened)
               => ParCompleted

\* C18 witness: a sequential run over several records, one of them with an
\* identifier that has no space, completed
C18_Witness ==
    /\ SeqCompleted /\ WellFormedInput /\ pc = "exit"
    /\ NumRecords = MaxRecs /\ Len(OutLines) = 4 * MaxRecs

\* ------------------------------------------- identifiers of every shape
\* Runs over a single four-line group whose identifier line is any string of
\* at most MaxIdLen characters over IdAlphabet, so that every way of passing
\* or failing the checks of Fetch is met.
IdAlphabet == {"@", " ", "/", "1", "x"}

AnyIds == UNION { [1..n -> IdAlphabet] : n \in 0..MaxIdLen }

InitIds ==
    /\ args \in { <<"seq", "in.fastq.gz", "out.fastq.gz">>,
                  <<"par", "in.fastq.gz", "out.fastq.gz">> }
    /\ usage = FALSE
    /\ \E id \in AnyIds : input = <<id, <<"A">>, <<"+">>, <<"!">>>>
    /\ readErr = FALSE
    /\ W \in (IF mode = "par" THEN 1..MaxW ELSE {1})
    /\ pc = "main"
    /\ pos = 0 /\ sdata = <<>> /\ serr = Nil /\ batchSize = 0 /\ fetched = 0
    /\ opened = {} /\ closes = [r \in Resources |-> 0] /\ defers = <<>>
    /\ panicked = FALSE
    /\ out = <<>> /\ output = <<>>
    /\ seqNo = 0 /\ pending = <<>> /\ inflight = {} /\ handoff = <<>>
    /\ stash = {} /\ expected = 0 /\ perr = Nil /\ fetchDone = FALSE
    /\ delivered = <<>>

SpecIds == InitIds /\ [][Next]_vars

\* the records Fetch has accepted and the transform has not yet rewritten
AcceptedRecords ==
    { sdata[i] : i \in 1..Len(sdata) }
        \cup UNION { { b.data[i] : i \in 1..Len(b.data) } :
                       b \in inflight \cup { pending[i] : i \in 1..Len(pending) } }

\* a worker aborted: the process ended with deferred calls still to run
WorkerAborted == pc = "exit" /\ defers # <<>>

\* C19: for every identifier accepted by Fetch, with or without a space, the
\* bounds of the transform's slice are valid, 0 <= (index of first space) + 1
\* <= len - 2 <= len, and the transform stage never aborts.
C19_SliceBoundsValid ==
    /\ \A r \in AcceptedRecords :
          LET id == r.identifier
              lo == IndexByte(id, SP) + 1
              hi == Len(id) - 2
          IN  /\ id[1] = "@" /\ EndsInMate(id)
              /\ 0 <= lo /\ lo <= hi /\ hi <= Len(id)
    /\ ~WorkerAborted

\* C19 witness: a worker holds the shortest acceptable identifier, "@/1",
\* which has no space: the slice is [0:1]
C19_Witness ==
    \E b \in inflight :
        /\ b.data[1].identifier = <<"@", "/", "1">>
        /\ IndexByte(b.data[1].identifier, SP) = -1

====
